---- MODULE Spec2Model ----
(***************************************************************************)
(* Model of mqtt_forwarder.py: the MQTTForwarder callbacks (on_connect,    *)
(* on_disconnect, on_message), the payload transformation (is_json,        *)
(* convert_json_format), forward_message, and the start/stop lifecycle.    *)
(*                                                                         *)
(* Python str and bytes values are sequences of one-character strings.     *)
(* Parsed JSON values are tagged records:                                  *)
(*   [t |-> "null"], [t |-> "bool", b], [t |-> "int", n],                  *)
(*   [t |-> "float", neg, ip, fd], [t |-> "nan"], [t |-> "inf", neg],      *)
(*   [t |-> "str", s], [t |-> "list", items], [t |-> "dict", pairs]        *)
(* where a dict keeps its pairs [key, val] in insertion order.             *)
(***************************************************************************)
EXTENDS Integers, Sequences, FiniteSets

(***************************************************************************)
(* str / bytes helpers                                                     *)
(***************************************************************************)

\* The byte 0xFF, which never occurs in valid UTF-8.
BadByte == "<FF>"

\* Characters removed by str.strip() (ASCII whitespace).
Whitespace == {" ", "\t", "\n", "\r"}

\* s[i], or "" past the end of s.
At(s, i) == IF i >= 1 /\ i <= Len(s) THEN s[i] ELSE ""

\* s[i:], the suffix of s starting at position i (1-based).
From(s, i) == SubSeq(s, i, Len(s))

\* s.startswith(p)
startswith(s, p) == Len(s) >= Len(p) /\ SubSeq(s, 1, Len(p)) = p

\* s[i:].startswith(p)
HasAt(s, i, p) == i + Len(p) - 1 <= Len(s) /\ SubSeq(s, i, i + Len(p) - 1) = p

\* s.replace(old, new): every non-overlapping occurrence, left to right.
RECURSIVE replace(_, _, _)
replace(s, old, new) ==
    IF s = <<>> THEN <<>>
    ELSE IF startswith(s, old)
         THEN new \o replace(From(s, Len(old) + 1), old, new)
         ELSE <<s[1]>> \o replace(From(s, 2), old, new)

RECURSIVE lstrip(_)
lstrip(s) ==
    IF s # <<>> /\ s[1] \in Whitespace THEN lstrip(From(s, 2)) ELSE s

RECURSIVE rstrip(_)
rstrip(s) ==
    IF s # <<>> /\ s[Len(s)] \in Whitespace
    THEN rstrip(SubSeq(s, 1, Len(s) - 1)) ELSE s

\* Variant of strip that removes leading whitespace only.
strip_left_only(s) == lstrip(s)

\* s.strip()
strip(s) == rstrip(lstrip(s))

\* bytes.decode('utf-8'): raises UnicodeDecodeError on an invalid byte.
decode(b) ==
    IF \E i \in 1..Len(b) : b[i] = BadByte
    THEN [ok |-> FALSE]
    ELSE [ok |-> TRUE, text |-> b]

(***************************************************************************)
(* JSON values                                                             *)
(***************************************************************************)

JNull == [t |-> "null"]
JBool(b) == [t |-> "bool", b |-> b]
JInt(n) == [t |-> "int", n |-> n]
JFloat(neg, ip, fd) == [t |-> "float", neg |-> neg, ip |-> ip, fd |-> fd]
JNaN == [t |-> "nan"]
JInf(neg) == [t |-> "inf", neg |-> neg]
JStr(s) == [t |-> "str", s |-> s]
JList(items) == [t |-> "list", items |-> items]
JDict(pairs) == [t |-> "dict", pairs |-> pairs]

\* dict[key] = val: a new key goes last, an existing key keeps its place.
RECURSIVE DictSet(_, _, _)
DictSet(pairs, key, val) ==
    IF pairs = <<>> THEN <<[key |-> key, val |-> val]>>
    ELSE IF pairs[1].key = key
         THEN <<[key |-> key, val |-> val]>> \o From(pairs, 2)
         ELSE <<pairs[1]>> \o DictSet(From(pairs, 2), key, val)

\* isinstance(v, dict), isinstance(v, list)
IsDict(v) == v.t = "dict"
IsList(v) == v.t = "list"

\* bool(v): Python truth value of a parsed JSON value.
Truthy(v) ==
    CASE v.t = "null"  -> FALSE
      [] v.t = "bool"  -> v.b
      [] v.t = "int"   -> v.n # 0
      [] v.t = "float" -> v.ip # 0 \/ \E i \in 1..Len(v.fd) : v.fd[i] # "0"
      [] v.t = "nan"   -> TRUE
      [] v.t = "inf"   -> TRUE
      [] v.t = "str"   -> v.s # <<>>
      [] v.t = "list"  -> v.items # <<>>
      [] v.t = "dict"  -> v.pairs # <<>>

(***************************************************************************)
(* json.loads, as called by is_json and on_message: a recursive-descent    *)
(* decoder over the characters of the text.  It covers whitespace, the     *)
(* literals null / true / false / NaN / Infinity / -Infinity, integers and *)
(* decimal fractions, strings without escapes, arrays and objects.         *)
(* A result is [ok |-> FALSE] (JSONDecodeError) or                         *)
(* [ok |-> TRUE, val |-> value, pos |-> index after the value].            *)
(***************************************************************************)

ParseFail == [ok |-> FALSE]
ParseOk(v, i) == [ok |-> TRUE, val |-> v, pos |-> i]

JsonWs == {" ", "\t", "\n", "\r"}
DigitChars == <<"0", "1", "2", "3", "4", "5", "6", "7", "8", "9">>
IsDigit(c) == \E k \in 1..10 : DigitChars[k] = c
DigitVal(c) == (CHOOSE k \in 1..10 : DigitChars[k] = c) - 1

Lit_null == <<"n", "u", "l", "l">>
Lit_true == <<"t", "r", "u", "e">>
Lit_false == <<"f", "a", "l", "s", "e">>
Lit_NaN == <<"N", "a", "N">>
Lit_Infinity == <<"I", "n", "f", "i", "n", "i", "t", "y">>

RECURSIVE SkipWs(_, _)
SkipWs(s, i) == IF At(s, i) \in JsonWs THEN SkipWs(s, i + 1) ELSE i

\* Index after the run of digits starting at i.
RECURSIVE ScanDigits(_, _)
ScanDigits(s, i) == IF IsDigit(At(s, i)) THEN ScanDigits(s, i + 1) ELSE i

\* int(s[i:j]) for a run of digits.
RECURSIVE DigitsValue(_, _, _)
DigitsValue(s, i, j) ==
    IF j <= i THEN 0 ELSE DigitsValue(s, i, j - 1) * 10 + DigitVal(s[j - 1])

\* NUMBER_RE: (-?(?:0|[1-9]\d*))(\.\d+)? at position i.
ParseNumber(s, i) ==
    LET neg == At(s, i) = "-"
        st == IF neg THEN i + 1 ELSE i
        intEnd == IF At(s, st) = "0" THEN st + 1 ELSE ScanDigits(s, st)
        fracEnd == IF At(s, intEnd) = "." /\ IsDigit(At(s, intEnd + 1))
                   THEN ScanDigits(s, intEnd + 1) ELSE intEnd
        ip == DigitsValue(s, st, intEnd)
    IN IF intEnd = st THEN ParseFail
       ELSE IF fracEnd = intEnd
            THEN ParseOk(JInt(IF neg THEN 0 - ip ELSE ip), intEnd)
            ELSE ParseOk(JFloat(neg, ip, SubSeq(s, intEnd + 1, fracEnd - 1)),
                         fracEnd)

\* Index of the closing quote of the string whose content starts at i, or 0
\* when the string is unterminated or holds a control character.
RECURSIVE ScanString(_, _)
ScanString(s, i) ==
    IF i > Len(s) THEN 0
    ELSE IF s[i] = "\"" THEN i
    ELSE IF s[i] \in {"\t", "\n", "\r"} THEN 0
    ELSE ScanString(s, i + 1)

\* A string whose opening quote is at position i.
ParseString(s, i) ==
    LET close == ScanString(s, i + 1)
    IN IF close = 0 THEN ParseFail
       ELSE ParseOk(JStr(SubSeq(s, i + 1, close - 1)), close + 1)

RECURSIVE ParseValue(_, _)
RECURSIVE ParseElements(_, _, _)
RECURSIVE ParseMembers(_, _, _)

\* JSONArray after the first element position: i is at a value.
ParseElements(s, i, acc) ==
    LET r == ParseValue(s, i)
    IN IF ~r.ok THEN ParseFail
       ELSE LET j == SkipWs(s, r.pos)
                items == Append(acc, r.val)
            IN IF At(s, j) = "]" THEN ParseOk(JList(items), j + 1)
               ELSE IF At(s, j) = ","
                    THEN ParseElements(s, SkipWs(s, j + 1), items)
                    ELSE ParseFail

\* JSONObject: i is at the opening quote of a key.
ParseMembers(s, i, acc) ==
    IF At(s, i) # "\"" THEN ParseFail
    ELSE LET k == ParseString(s, i)
         IN IF ~k.ok THEN ParseFail
            ELSE LET c == SkipWs(s, k.pos)
                 IN IF At(s, c) # ":" THEN ParseFail
                    ELSE LET r == ParseValue(s, SkipWs(s, c + 1))
                         IN IF ~r.ok THEN ParseFail
                            ELSE LET j == SkipWs(s, r.pos)
                                     pairs == DictSet(acc, k.val.s, r.val)
                                 IN IF At(s, j) = "}"
                                    THEN ParseOk(JDict(pairs), j + 1)
                                    ELSE IF At(s, j) = ","
                                         THEN ParseMembers(s, SkipWs(s, j + 1), pairs)
                                         ELSE ParseFail

\* scan_once: the value starting exactly at position i.
ParseValue(s, i) ==
    LET c == At(s, i)
    IN CASE c = "\"" -> ParseString(s, i)
         [] c = "{" ->
              LET j == SkipWs(s, i + 1)
              IN IF At(s, j) = "}" THEN ParseOk(JDict(<<>>), j + 1)
                 ELSE ParseMembers(s, j, <<>>)
         [] c = "[" ->
              LET j == SkipWs(s, i + 1)
              IN IF At(s, j) = "]" THEN ParseOk(JList(<<>>), j + 1)
                 ELSE ParseElements(s, j, <<>>)
         [] c = "n" /\ HasAt(s, i, Lit_null) -> ParseOk(JNull, i + 4)
         [] c = "t" /\ HasAt(s, i, Lit_true) -> ParseOk(JBool(TRUE), i + 4)
         [] c = "f" /\ HasAt(s, i, Lit_false) -> ParseOk(JBool(FALSE), i + 5)
         [] ParseNumber(s, i).ok -> ParseNumber(s, i)
         [] c = "N" /\ HasAt(s, i, Lit_NaN) -> ParseOk(JNaN, i + 3)
         [] c = "I" /\ HasAt(s, i, Lit_Infinity) -> ParseOk(JInf(FALSE), i + 8)
         [] c = "-" /\ HasAt(s, i + 1, Lit_Infinity) -> ParseOk(JInf(TRUE), i + 9)
         [] OTHER -> ParseFail

\* json.loads(text): one value, surrounded by optional whitespace, and
\* nothing after it.  [ok |-> FALSE] stands for JSONDecodeError.
json_loads(text) ==
    LET r == ParseValue(text, SkipWs(text, 1))
    IN IF r.ok /\ SkipWs(text, r.pos) = Len(text) + 1
       THEN [ok |-> TRUE, val |-> r.val]
       ELSE [ok |-> FALSE]

(***************************************************************************)
(* json.dumps(data, ensure_ascii=False), as called by forward_message:     *)
(* default separators ", " and ": ".  A float is written from its digits   *)
(* (without trailing zeros of the fraction), which is Python's repr for    *)
(* the short decimals the model feeds it.                                  *)
(***************************************************************************)

\* str(n) for n >= 0
RECURSIVE NatStr(_)
NatStr(n) ==
    IF n < 10 THEN <<DigitChars[n + 1]>>
    ELSE NatStr(n \div 10) \o <<DigitChars[(n % 10) + 1]>>

IntStr(n) == IF n < 0 THEN <<"-">> \o NatStr(0 - n) ELSE NatStr(n)

RECURSIVE TrimZeros(_)
TrimZeros(fd) ==
    IF Len(fd) > 1 /\ fd[Len(fd)] = "0"
    THEN TrimZeros(SubSeq(fd, 1, Len(fd) - 1)) ELSE fd

\* The body of a JSON string: quote, backslash and control characters escaped.
RECURSIVE Escape(_)
Escape(s) ==
    IF s = <<>> THEN <<>>
    ELSE (CASE s[1] = "\"" -> <<"\\", "\"">>
            [] s[1] = "\\" -> <<"\\", "\\">>
            [] s[1] = "\n" -> <<"\\", "n">>
            [] s[1] = "\r" -> <<"\\", "r">>
            [] s[1] = "\t" -> <<"\\", "t">>
            [] OTHER -> <<s[1]>>) \o Escape(From(s, 2))

Quoted(s) == <<"\"">> \o Escape(s) \o <<"\"">>

RECURSIVE json_dumps(_)
RECURSIVE DumpItems(_)
RECURSIVE DumpPairs(_)

DumpItems(items) ==
    IF items = <<>> THEN <<>>
    ELSE json_dumps(items[1])
         \o (IF Len(items) > 1 THEN <<",", " ">> ELSE <<>>)
         \o DumpItems(From(items, 2))

DumpPairs(pairs) ==
    IF pairs = <<>> THEN <<>>
    ELSE Quoted(pairs[1].key) \o <<":", " ">> \o json_dumps(pairs[1].val)
         \o (IF Len(pairs) > 1 THEN <<",", " ">> ELSE <<>>)
         \o DumpPairs(From(pairs, 2))

json_dumps(v) ==
    CASE v.t = "null"  -> Lit_null
      [] v.t = "bool"  -> IF v.b THEN Lit_true ELSE Lit_false
      [] v.t = "int"   -> IntStr(v.n)
      [] v.t = "float" -> (IF v.neg THEN <<"-">> ELSE <<>>) \o NatStr(v.ip)
                          \o <<".">> \o TrimZeros(v.fd)
      [] v.t = "nan"   -> Lit_NaN
      [] v.t = "inf"   -> (IF v.neg THEN <<"-">> ELSE <<>>) \o Lit_Infinity
      [] v.t = "str"   -> Quoted(v.s)
      [] v.t = "list"  -> <<"[">> \o DumpItems(v.items) \o <<"]">>
      [] v.t = "dict"  -> <<"{">> \o DumpPairs(v.pairs) \o <<"}">>

\* d[key] for a dict that has the key.
Get(d, key) ==
    d.pairs[CHOOSE i \in 1..Len(d.pairs) : d.pairs[i].key = key].val

(***************************************************************************)
(* MQTTForwarder: the transformation of one inbound message                *)
(***************************************************************************)

\* "status/AMT", the topic prefix of on_connect and on_message
Prefix == <<"s", "t", "a", "t", "u", "s", "/", "A", "M", "T">>
S_AMT == <<"A", "M", "T">>
S_park == <<"p", "a", "r", "k">>
K_data == <<"d", "a", "t", "a">>
K_SN == <<"S", "N">>
K_Type == <<"T", "y", "p", "e">>
K_flexem_timestamp == <<"f", "l", "e", "x", "e", "m", "_",
                        "t", "i", "m", "e", "s", "t", "a", "m", "p">>
K_name == <<"n", "a", "m", "e">>
K_value == <<"v", "a", "l", "u", "e">>

\* is_json(text): json.loads(text) does not raise JSONDecodeError.
is_json(text) == json_loads(text).ok

\* Variant of convert_json_format that leaves out the keys whose value is
\* empty (0, false, null, "", [], {}).
convert_json_format_drops_empty(data) ==
    IF IsDict(data)
    THEN LET kept == SelectSeq(data.pairs, LAMBDA p : Truthy(p.val))
         IN JList([i \in 1..Len(kept) |->
                     JDict(<<[key |-> K_name, val |-> JStr(kept[i].key)],
                             [key |-> K_value, val |-> kept[i].val]>>)])
    ELSE data

\* convert_json_format(data): a dict becomes the list of its
\* {"name": key, "value": value} records, in the dict's order; any other
\* value is returned as it is.
convert_json_format(data) ==
    IF IsDict(data)
    THEN JList([i \in 1..Len(data.pairs) |->
                  JDict(<<[key |-> K_name, val |-> JStr(data.pairs[i].key)],
                          [key |-> K_value, val |-> data.pairs[i].val]>>)])
    ELSE data

\* Variant of the skip test that skips the empty object only.
IsEmptyJson_dict_only(parsed_data) ==
    IsDict(parsed_data) /\ Len(parsed_data.pairs) = 0

\* The skip test of on_message:
\*   not parsed_data or (isinstance(parsed_data, dict) and len(parsed_data) == 0)
IsEmptyJson(parsed_data) ==
    ~Truthy(parsed_data) \/ (IsDict(parsed_data) /\ Len(parsed_data.pairs) = 0)

\* device_id = topic.replace("status/AMT", "")
DeviceId(topic) == replace(topic, Prefix, <<>>)

\* data_array = data_content if isinstance(data_content, list) else [data_content]
DataArray(data_content) ==
    IF IsList(data_content) THEN data_content ELSE JList(<<data_content>>)

\* The forward_data dict of on_message.
ForwardData(data_array, device_id, now) ==
    JDict(<<[key |-> K_data, val |-> data_array],
            [key |-> K_SN, val |-> JStr(S_AMT \o device_id)],
            [key |-> K_Type, val |-> JStr(S_park)],
            [key |-> K_flexem_timestamp, val |-> JInt(now)]>>)

\* msg.payload.decode('utf-8').strip()
PayloadText(payload) ==
    LET d == decode(payload)
    IN IF d.ok THEN [ok |-> TRUE, text |-> strip(d.text)] ELSE [ok |-> FALSE]

\* on_message up to the construction of forward_data: what the handler
\* decides for the message (topic, payload bytes).
\*   kind "error"           an exception reached the handler's except clause
\*   kind "skip_empty"      the stripped payload is empty
\*   kind "ignored"         the topic does not start with the prefix
\*   kind "skip_empty_json" the parsed payload is empty
\*   kind "forward"         forward_data is built and forward_message called
\* log lists the levels of the records the handler logged on the way.
Transform(topic, payload) ==
    LET p == PayloadText(payload)
    IN IF ~p.ok THEN [kind |-> "error", log |-> <<"error">>]
       ELSE IF p.text = <<>> THEN [kind |-> "skip_empty", log |-> <<"info">>]
       ELSE IF ~startswith(topic, Prefix) THEN [kind |-> "ignored", log |-> <<>>]
       ELSE IF is_json(p.text) /\ IsEmptyJson(json_loads(p.text).val)
            THEN [kind |-> "skip_empty_json", log |-> <<"info", "info">>]
       ELSE LET data_content ==
                    IF is_json(p.text)
                    THEN convert_json_format(json_loads(p.text).val)
                    ELSE JStr(p.text)
            IN [kind |-> "forward", log |-> <<"info">>,
                data_array |-> DataArray(data_content),
                device_id |-> DeviceId(topic)]

(***************************************************************************)
(* MQTTForwarder: state                                                    *)
(***************************************************************************)

VARIABLES
    config,            \* self.config
    client,            \* self.client: None, or the client and the broker it connects to
    is_running,        \* self.is_running
    is_connected,      \* self.is_connected
    main_pc,           \* position of the main thread in start()
    subscribed,        \* topics passed to client.subscribe
    inbox,             \* inbound messages the transport has still to deliver
    publish_calls,     \* the calls of client.publish made so far, in order
    last_notification_ok, \* history: the last connection callback was on_connect with rc 0
    dropped,           \* history: envelopes forward_message did not publish
    last               \* history: the last message handled and what on_message did

vars == <<config, client, is_running, is_connected, main_pc, subscribed,
          inbox, publish_calls, last_notification_ok, dropped, last>>

None == [none |-> TRUE]

\* mqtt.MQTT_ERR_SUCCESS
MQTT_ERR_SUCCESS == 0

\* What client.publish can do: return a result with rc MQTT_ERR_SUCCESS,
\* return one with another rc (4 is MQTT_ERR_NO_CONN), or raise.
PublishOutcomes ==
    {[raised |-> FALSE, rc |-> MQTT_ERR_SUCCESS],
     [raised |-> FALSE, rc |-> 4],
     [raised |-> TRUE]}

\* The values int(time.time() * 1000) is read as.
MaxTime == 2
Times == 1..MaxTime

\* The rc values on_connect is called with: 0 accepted, 5 not authorised.
ConnectCodes == {0, 5}
NoPublish == [skipped |-> TRUE]

\* Device ids of config['devices'].  An id is advisory only (main warns when
\* it is not 14 digits), so an id may itself contain the prefix text.
D_1234 == <<"1", "2", "3", "4">>
D_nested == Prefix \o <<"7">>
Devices == <<D_1234, D_nested>>

Config(forward_broker) ==
    [devices |-> Devices,
     mqtt |-> [broker |-> "source", port |-> 1883],
     forward |-> [broker |-> forward_broker, port |-> 1883,
                  topic |-> <<"o", "u", "t">>]]

Configs == {Config("source"), Config("destination")}

\* f"status/AMT{device_id}"
DeviceTopic(device_id) == Prefix \o device_id

T_other == <<"o", "t", "h", "e", "r", "/", "t">>
T_1234 == DeviceTopic(D_1234)
T_nested == DeviceTopic(D_nested)

(***************************************************************************)
(* MQTTForwarder: operations                                               *)
(***************************************************************************)

\* setup_client and the client.connect call of start: one client, connected
\* to config['mqtt']['broker'] : config['mqtt']['port'].
setup_client(cfg) == [broker |-> cfg.mqtt.broker, port |-> cfg.mqtt.port]

\* The network loop runs between loop_start and loop_stop: callbacks fire.
LoopAlive == main_pc \in {"started", "waiting"}

\* Variant of the forward_message guard that does not consult is_connected.
CanPublish_ignores_connection(cl, conn) == cl # None

\* forward_message: if self.client and self.is_connected
CanPublish(cl, conn) == cl # None /\ conn

\* forward_message: the client.publish(topic, message_json) call and its outcome
PublishCall(cl, cfg, data, pub) ==
    [broker |-> cl.broker, port |-> cl.port,
     topic |-> cfg.forward.topic,
     payload |-> json_dumps(data),
     outcome |-> pub]

\* forward_message: the levels of the records it logs
ForwardLog(cl, conn, pub) ==
    IF CanPublish(cl, conn) /\ ~pub.raised /\ pub.rc = MQTT_ERR_SUCCESS
    THEN <<"info">> ELSE <<"error">>

\* Variant of forward_message that marks the connection as lost when
\* client.publish fails or raises.
forward_message_disconnects_on_failure(data, pub) ==
    /\ publish_calls' =
          IF (client # None /\ is_connected) THEN Append(publish_calls, PublishCall(client, config, data, pub))
          ELSE publish_calls
    /\ dropped' = IF (client # None /\ is_connected) THEN dropped ELSE dropped + 1
    /\ is_connected' =
          IF (client # None /\ is_connected) /\ (pub.raised \/ pub.rc # MQTT_ERR_SUCCESS)
          THEN FALSE ELSE is_connected
    /\ UNCHANGED <<config, client, is_running>>

\* forward_message(data), with pub what client.publish does when called
forward_message(data, pub) ==
    /\ publish_calls' =
          IF CanPublish(client, is_connected)
          THEN Append(publish_calls, PublishCall(client, config, data, pub))
          ELSE publish_calls
    /\ dropped' = IF CanPublish(client, is_connected) THEN dropped ELSE dropped + 1
    /\ UNCHANGED <<config, client, is_running, is_connected>>

\* start(): setup_client, client.connect and loop_start succeed
start_client ==
    /\ main_pc = "init"
    /\ client' = setup_client(config)
    /\ main_pc' = "started"
    /\ UNCHANGED <<config, is_running, is_connected, subscribed, inbox,
                   publish_calls, last_notification_ok, dropped, last>>

\* stop(): is_running = False, loop_stop, disconnect
stop ==
    /\ is_running' = FALSE
    /\ main_pc' = "stopped"

\* start(): client.connect raises; the except clause logs and calls stop()
start_fails ==
    /\ main_pc = "init"
    /\ client' = setup_client(config)
    /\ stop
    /\ UNCHANGED <<config, is_connected, subscribed, inbox,
                   publish_calls, last_notification_ok, dropped, last>>

\* start(): self.is_running = True, then the wait loop
start_running ==
    /\ main_pc = "started"
    /\ is_running' = TRUE
    /\ main_pc' = "waiting"
    /\ UNCHANGED <<config, client, is_connected, subscribed, inbox,
                   publish_calls, last_notification_ok, dropped, last>>

\* start(): KeyboardInterrupt in the wait loop, then stop()
interrupt ==
    /\ main_pc = "waiting"
    /\ stop
    /\ UNCHANGED <<config, client, is_connected, subscribed, inbox,
                   publish_calls, last_notification_ok, dropped, last>>

\* on_connect(client, userdata, flags, rc)
on_connect(rc) ==
    /\ LoopAlive
    /\ IF rc = 0
       THEN /\ is_connected' = TRUE
            /\ subscribed' = subscribed \cup
                   {DeviceTopic(config.devices[i]) : i \in 1..Len(config.devices)}
            /\ last_notification_ok' = TRUE
       ELSE /\ is_connected' = FALSE
            /\ subscribed' = subscribed
            /\ last_notification_ok' = FALSE
    /\ UNCHANGED <<config, client, is_running, main_pc, inbox,
                   publish_calls, dropped, last>>

\* on_disconnect(client, userdata, rc)
on_disconnect ==
    /\ LoopAlive
    /\ is_connected' = FALSE
    /\ last_notification_ok' = FALSE
    /\ UNCHANGED <<config, client, is_running, main_pc, subscribed, inbox,
                   publish_calls, dropped, last>>

\* The record of one handled message kept in last.
Handled(msg, d, data, called, fwdlog) ==
    [ev |-> "on_message", topic |-> msg.topic, payload |-> msg.payload,
     connected |-> is_connected, kind |-> d.kind, data |-> data, called |-> called, log |-> d.log \o fwdlog]

\* on_message(client, userdata, msg) for the next message of the transport.
\* When it builds forward_data it reads the clock (now) and calls
\* forward_message; pub is what client.publish does if that calls it.
on_message ==
    /\ LoopAlive
    /\ inbox # <<>>
    /\ LET msg == Head(inbox)
           d == Transform(msg.topic, msg.payload)
           calls == CanPublish(client, is_connected)
       IN IF d.kind = "forward"
          THEN \E now \in Times :
               \E pub \in IF calls THEN PublishOutcomes ELSE {NoPublish} :
                  LET data == ForwardData(d.data_array, d.device_id, now)
                  IN /\ forward_message(data, pub)
                     /\ last' = Handled(msg, d, data, calls,
                                        ForwardLog(client, is_connected, pub))
          ELSE /\ last' = Handled(msg, d, JNull, FALSE, <<>>)
               /\ UNCHANGED <<config, client, is_running, is_connected,
                              publish_calls, dropped>>
    /\ inbox' = Tail(inbox)
    /\ UNCHANGED <<main_pc, subscribed, last_notification_ok>>

(***************************************************************************)
(* Inputs                                                                  *)
(***************************************************************************)

P_empty == <<>>
P_spaces == <<" ", "\n", "\t">>
P_emptyobj == <<"{", "}">>
P_emptyobj_ws == <<" ", "{", "}", "\n">>
P_null == <<"n", "u", "l", "l">>
P_null_ws == <<"\t", "n", "u", "l", "l", " ">>
P_zero == <<"0">>
P_zero_ws == <<" ", "0", "\n">>
P_false == <<"f", "a", "l", "s", "e">>
P_seven == <<"7">>
P_true == <<"t", "r", "u", "e">>
P_fzero == <<"0", ".", "0">>
P_half == <<"0", ".", "5">>
P_arr123 == <<"[", "1", ",", "2", ",", "3", "]">>
P_emptyarr == <<"[", "]">>
P_str == <<"\"", "o", "n", "\"">>
P_emptystr == <<"\"", "\"">>
P_notjson == <<"n", "o", "t", " ", "j", "s", "o", "n">>
P_notjson_ws == <<" ", "n", "o", "t", " ", "j", "s", "o", "n", "\n">>
P_truncated == <<"{", "\"", "a", "\"", ":">>
P_quote == <<"\"", "x">>
P_badbyte == <<BadByte>>
P_badbyte_obj == <<"{", "\"", "a", "\"", ":", "1", "}", BadByte>>
P_NaN == Lit_NaN
P_obj_a1 == <<"{", "\"", "a", "\"", ":", "1", "}">>
P_obj_dup == <<"{", "\"", "a", "\"", ":", "1", ",",
                    "\"", "a", "\"", ":", "2", "}">>

BasePayloads ==
    {P_empty, P_spaces, P_emptyobj, P_emptyobj_ws, P_null, P_null_ws, P_zero,
     P_zero_ws, P_false, P_seven, P_true, P_fzero, P_half, P_arr123,
     P_emptyarr, P_str, P_emptystr, P_notjson, P_notjson_ws, P_truncated,
     P_quote, P_badbyte, P_badbyte_obj, P_NaN, P_obj_a1, P_obj_dup}

\* JSON objects of 1..MaxKeys distinct keys, written out by json.dumps.
MaxKeys == 2
ObjKeys == {<<"b">>, <<"a">>, <<"A", "I", "1">>}
ObjValues == {JInt(0), JNull, JStr(<<"x">>), JList(<<JInt(1), JDict(<<>>)>>)}
ObjPairSeqs ==
    UNION {{ps \in [1..n -> [key : ObjKeys, val : ObjValues]] :
              \A i, j \in 1..n : i # j => ps[i].key # ps[j].key} : n \in 1..MaxKeys}
ObjSamples == {[pairs |-> ps, text |-> json_dumps(JDict(ps))] : ps \in ObjPairSeqs}

Topics == {T_1234, T_nested, Prefix, T_other}

Msg(topic, payload) == [topic |-> topic, payload |-> payload]

\* One message: every topic with every base payload, and the device topic
\* with every sample object.
DecideInboxes ==
    {<<Msg(t, p)>> : t \in Topics, p \in BasePayloads}
    \cup {<<Msg(T_1234, o.text)>> : o \in ObjSamples}

\* Up to MaxInbox messages from a small set covering each outcome.
MaxInbox == 2
RelayMsgs ==
    {Msg(T_1234, P_obj_a1), Msg(T_1234, P_notjson), Msg(T_1234, P_emptyobj),
     Msg(T_1234, P_spaces), Msg(T_1234, P_badbyte), Msg(T_other, P_obj_a1)}
RelayInboxes == UNION {[1..n -> RelayMsgs] : n \in 0..MaxInbox}

(***************************************************************************)
(* Specifications                                                          *)
(***************************************************************************)

\* The state after MQTTForwarder(config_file), with the messages to come.
InitWith(inboxes) ==
    /\ config \in Configs
    /\ client = None
    /\ is_running = FALSE
    /\ is_connected = FALSE
    /\ main_pc = "init"
    /\ subscribed = {}
    /\ inbox \in inboxes
    /\ publish_calls = <<>>
    /\ last_notification_ok = FALSE
    /\ dropped = 0
    /\ last = [ev |-> "none"]

Init == InitWith(RelayInboxes)
InitDecide == InitWith(DecideInboxes)

Next ==
    \/ start_client
    \/ start_fails
    \/ start_running
    \/ interrupt
    \/ \E rc \in ConnectCodes : on_connect(rc)
    \/ on_disconnect
    \/ on_message

\* The relay: sequences of callbacks over a few messages.
Spec == Init /\ [][Next]_vars

\* The transformation: one message drawn from the full input set.
SpecDecide == InitDecide /\ [][Next]_vars

(***************************************************************************)
(* Properties                                                              *)
(***************************************************************************)

\* Topics that start with "status/AMT".
AMTTopics == {T_1234, T_nested, Prefix}

\* A message on a "status/AMT" topic with this payload has been handled.
HandledAMT(payload) ==
    /\ last.ev = "on_message"
    /\ last.topic \in AMTTopics
    /\ last.payload = payload

\* The data array of the envelope handed to forward_message.
LastData == Get(last.data, K_data)

\* Payloads that are a JSON number or boolean, with the value they denote.
ScalarSamples ==
    {[text |-> P_zero, val |-> JInt(0)],
     [text |-> P_zero_ws, val |-> JInt(0)],
     [text |-> P_false, val |-> JBool(FALSE)],
     [text |-> P_seven, val |-> JInt(7)],
     [text |-> P_true, val |-> JBool(TRUE)],
     [text |-> P_fzero, val |-> JFloat(FALSE, 0, <<"0">>)],
     [text |-> P_half, val |-> JFloat(FALSE, 0, <<"5">>)]}

\* C1: a payload that is a JSON number or boolean (0 and false included) is
\* not skipped: the envelope handed to forward_message has data == [value].
C1_ScalarForwarded ==
    \A s \in ScalarSamples :
        HandledAMT(s.text) =>
            /\ last.kind = "forward"
            /\ LastData = JList(<<s.val>>)

\* Payloads that are a JSON array, with the array they denote.
ArraySamples ==
    {[text |-> P_arr123, val |-> JList(<<JInt(1), JInt(2), JInt(3)>>)],
     [text |-> P_emptyarr, val |-> JList(<<>>)]}

\* C2: a payload that is a JSON array A (the empty array included) is
\* forwarded with data == [A], never skipped and never used as data itself.
C2_ArrayWrapped ==
    \A s \in ArraySamples :
        HandledAMT(s.text) =>
            /\ last.kind = "forward"
            /\ LastData = JList(<<s.val>>)

\* The record {name: k, value: v}.
Record(k, v) ==
    JDict(<<[key |-> K_name, val |-> JStr(k)], [key |-> K_value, val |-> v]>>)

\* Objects written by hand, with the pairs of the parsed object.
LiteralObjSamples ==
    {[text |-> P_obj_a1, pairs |-> <<[key |-> <<"a">>, val |-> JInt(1)]>>],
     [text |-> P_obj_dup, pairs |-> <<[key |-> <<"a">>, val |-> JInt(2)]>>]}

\* C3: a payload that is a JSON object of n >= 1 keys gives data of exactly
\* n records {name: ki, value: vi}, in the object's key order, each value
\* unchanged whatever its type.
C3_ObjectRecords ==
    \A o \in ObjSamples \cup LiteralObjSamples :
        HandledAMT(o.text) =>
            /\ last.kind = "forward"
            /\ Len(LastData.items) = Len(o.pairs)
            /\ LastData = JList([i \in 1..Len(o.pairs) |->
                                   Record(o.pairs[i].key, o.pairs[i].val)])

\* C3 witness: an object of two keys was handled and forwarded.
C3_Witness ==
    /\ last.ev = "on_message"
    /\ last.kind = "forward"
    /\ \E o \in ObjSamples : Len(o.pairs) = 2 /\ last.payload = o.text

\* Payloads that are empty, whitespace only, or "{}" / "null" once trimmed.
SkipSamples ==
    {P_empty, P_spaces, P_emptyobj, P_emptyobj_ws, P_null, P_null_ws}

\* C4: an empty, whitespace-only, "{}" or "null" payload is skipped: nothing
\* is handed to forward_message, client.publish is not called for it in any
\* connection state, and no later event publishes anything for it.
C4_SkipNeverPublished ==
    (last.ev = "on_message" /\ last.payload \in SkipSamples) =>
        /\ last.kind \in {"skip_empty", "skip_empty_json", "ignored"}
        /\ last.topic \in AMTTopics => last.kind # "ignored"
        /\ ~last.called
        /\ publish_calls = <<>>
        /\ dropped = 0

\* C4 witness: "null" was skipped on a device topic while connected, no
\* message is left, and the forwarder has since been stopped.
C4_Witness ==
    /\ HandledAMT(P_null_ws)
    /\ last.kind = "skip_empty_json"
    /\ last.connected
    /\ is_connected
    /\ inbox = <<>>
    /\ main_pc = "stopped"

\* Payloads that are not well-formed: invalid JSON, or invalid UTF-8.
MalformedSamples ==
    {P_notjson, P_notjson_ws, P_truncated, P_quote, P_badbyte, P_badbyte_obj}

\* C5: a malformed payload (invalid JSON or invalid UTF-8) is never an error:
\* on_message takes the opaque-string path and forwards an envelope, and does
\* not log the message at error level.
C5_MalformedForwarded ==
    \A p \in MalformedSamples :
        HandledAMT(p) =>
            /\ last.kind = "forward"
            /\ last.log[1] # "error"

\* C6: SN is "AMT" followed by the topic with its leading "status/AMT"
\* stripped once, for every topic that starts with the prefix.
C6_SerialNumber ==
    (last.ev = "on_message" /\ last.kind = "forward") =>
        Get(last.data, K_SN) = JStr(S_AMT \o SubSeq(last.topic, Len(Prefix) + 1,
                                                     Len(last.topic)))

\* Payloads that are not JSON, with their trimmed text.
S_notjson == <<"n", "o", "t", " ", "j", "s", "o", "n">>
NonJsonSamples ==
    {[text |-> P_notjson, trimmed |-> S_notjson],
     [text |-> P_notjson_ws, trimmed |-> S_notjson],
     [text |-> P_truncated, trimmed |-> P_truncated],
     [text |-> P_quote, trimmed |-> P_quote]}

Succeeded(call) == ~call.outcome.raised /\ call.outcome.rc = MQTT_ERR_SUCCESS

\* C8: every envelope is published on forward.topic over a connection to
\* forward.broker : forward.port, so it reaches the destination broker also
\* when that differs from mqtt.broker : mqtt.port.
C8_DestinationBroker ==
    \A i \in 1..Len(publish_calls) :
        /\ publish_calls[i].topic = config.forward.topic
        /\ publish_calls[i].broker = config.forward.broker
        /\ publish_calls[i].port = config.forward.port

\* C9: client.publish is only called while is_connected is true, that is
\* while the last connection callback was on_connect with rc == 0; a call is
\* made only by on_message, for the message it is handling; an envelope
\* built while is_connected is false is dropped, and no later event
\* publishes it.
C9_PublishOnlyConnected ==
    /\ [](is_connected <=> last_notification_ok)
    /\ [][ /\ publish_calls' # publish_calls =>
                /\ is_connected /\ last_notification_ok
                /\ inbox # <<>> /\ inbox' = Tail(inbox)
                /\ last'.topic = Head(inbox).topic
                /\ last'.payload = Head(inbox).payload
                /\ last'.kind = "forward" /\ last'.called
                /\ Len(publish_calls') = Len(publish_calls) + 1
                /\ SubSeq(publish_calls', 1, Len(publish_calls)) = publish_calls
                /\ publish_calls'[Len(publish_calls')].payload = json_dumps(last'.data)
           /\ (inbox' # inbox /\ last'.kind = "forward" /\ ~is_connected) =>
                /\ publish_calls' = publish_calls
                /\ dropped' = dropped + 1
           /\ inbox' = inbox => publish_calls' = publish_calls ]_vars

\* C9 witness: an envelope was dropped while disconnected, the connection
\* came back, and the only call of client.publish is for the later message.
C9_Witness ==
    /\ dropped = 1
    /\ is_connected
    /\ last.ev = "on_message" /\ last.called
    /\ Len(publish_calls) = 1
    /\ publish_calls[1].payload = json_dumps(last.data)

\* What on_message decides for each message of RelayMsgs.
RelayExpectedKind(msg) ==
    CASE msg = Msg(T_1234, P_obj_a1)   -> "forward"
      [] msg = Msg(T_1234, P_notjson)  -> "forward"
      [] msg = Msg(T_1234, P_emptyobj) -> "skip_empty_json"
      [] msg = Msg(T_1234, P_spaces)   -> "skip_empty"
      [] msg = Msg(T_1234, P_badbyte)  -> "error"
      [] msg = Msg(T_other, P_obj_a1)  -> "ignored"

\* C10: a failure while handling a message (client.publish returns a
\* non-success code or raises, or the transformation raises) leaves
\* is_connected, is_running, client and config unchanged, is not retried or
\* re-queued, and every message is handled the same whatever failed before.
C10_FailureIsolated ==
    [][inbox' # inbox =>
         /\ UNCHANGED <<is_connected, is_running, client, config>>
         /\ inbox' = Tail(inbox)
         /\ Len(publish_calls') <= Len(publish_calls) + 1
         /\ last'.kind = RelayExpectedKind(Head(inbox))
         /\ last'.called <=> (last'.kind = "forward" /\ is_connected)]_vars

\* C10 witness: a call of client.publish failed or raised, and the call for
\* the next message succeeded.
C10_Witness ==
    /\ Len(publish_calls) = 2
    /\ ~Succeeded(publish_calls[1])
    /\ Succeeded(publish_calls[2])

====
